---- MODULE Spec2Model ----
(***************************************************************************)
(* A model of LoRA_IMG_TAG_BUILDER.py: the caption normaliser, the         *)
(* per-image caption store, the per-folder tag index, the folder history   *)
(* and the GUI event loop that drives them.                                *)
(*                                                                         *)
(* A Python str is a sequence of characters, each character a one-element  *)
(* TLA+ string; characters outside ASCII are written by their code point   *)
(* ("U+FF0C" is the full-width comma).                                     *)
(***************************************************************************)
EXTENDS Integers, Sequences, FiniteSets, TLC

\* ------------------------------------------------------------------ bounds
\* Longest raw text handed to the normaliser in NormSpec.
MaxLen == 5
\* Longest caption and longest tag handed to insert_tag in InsertSpec.
MaxCaptionLen == 4
MaxTagLen == 2
\* How often the user changes the caption field (typing, or clicking tags)
\* in one run of the GUI.
MaxEdits == 1
\* Most rows selected at once in the tag table.
MaxSelect == 2
\* Most *.txt files in the folder that IndexSpec rescans.
MaxFiles == 3
\* The directories that exist in HistSpec: one more than fills the history
\* and forces an eviction.
NumDirs == 12
\* Most calls of save_folder_history in HistSpec, after those that built the
\* history it starts from.
MaxSaves == 2

\* ----------------------------------------------------------------- strings
\* The characters raw texts are built from: two letters, the comma, a
\* character replace_map turns into a comma, and three kinds of whitespace
\* (space and newline are removed everywhere, a tab only by strip()).
Chars == {"a", "b", ",", "/", " ", "\n", "\t"}

RECURSIVE StringsOfLen(_)
StringsOfLen(n) ==
    IF n = 0 THEN {<<>>}
    ELSE {Append(s, c) : s \in StringsOfLen(n - 1), c \in Chars}

Strings(n) == UNION {StringsOfLen(k) : k \in 0..n}

\* str.isspace() of one character, for str.strip().
Whitespace == {" ", "\n", "\t", "\r"}

\* replace_map: full-width and typographic punctuation to ASCII.
ReplaceChar(c) ==
    CASE c = "U+FF0C" -> ","      \* full-width comma
      [] c = "U+3001" -> ","      \* ideographic comma
      [] c = "/"      -> ","
      [] c = "\\"     -> ","
      [] c = "U+FF08" -> "("
      [] c = "U+FF09" -> ")"
      [] c = "U+201C" -> "\""
      [] c = "U+201D" -> "\""
      [] c = "U+2018" -> "'"
      [] c = "U+2019" -> "'"
      [] c = "U+FF1B" -> ";"
      [] c = "U+FF1A" -> ":"
      [] OTHER        -> c

\* for old_char, new_char in replace_map.items(): text.replace(old, new)
ReplaceAll(s) == [i \in 1..Len(s) |-> ReplaceChar(s[i])]

\* s.replace(c, "")
RECURSIVE Remove(_, _)
Remove(s, c) ==
    IF s = <<>> THEN <<>>
    ELSE IF Head(s) = c THEN Remove(Tail(s), c)
    ELSE <<Head(s)>> \o Remove(Tail(s), c)

RECURSIVE LStrip(_)
LStrip(s) ==
    IF s # <<>> /\ Head(s) \in Whitespace THEN LStrip(Tail(s)) ELSE s

RECURSIVE RStrip(_)
RStrip(s) ==
    IF s # <<>> /\ s[Len(s)] \in Whitespace
    THEN RStrip(SubSeq(s, 1, Len(s) - 1)) ELSE s

\* str.strip()
Strip(s) == RStrip(LStrip(s))

\* s.split(","): always at least one piece, empty pieces kept.
RECURSIVE SplitFrom(_, _, _, _)
SplitFrom(s, i, cur, acc) ==
    IF i > Len(s) THEN Append(acc, cur)
    ELSE IF s[i] = "," THEN SplitFrom(s, i + 1, <<>>, Append(acc, cur))
    ELSE SplitFrom(s, i + 1, Append(cur, s[i]), acc)

Split(s) == SplitFrom(s, 1, <<>>, <<>>)

\* ",".join(pieces)
RECURSIVE Join(_)
Join(pieces) ==
    IF pieces = <<>> THEN <<>>
    ELSE IF Len(pieces) = 1 THEN pieces[1]
    ELSE pieces[1] \o <<",">> \o Join(Tail(pieces))

Range(s) == {s[i] : i \in DOMAIN s}

\* [t.strip() for t in s.split(",") if t.strip()]
RECURSIVE StripNonEmpty(_)
StripNonEmpty(pieces) ==
    IF pieces = <<>> THEN <<>>
    ELSE IF Strip(Head(pieces)) # <<>>
         THEN <<Strip(Head(pieces))>> \o StripNonEmpty(Tail(pieces))
         ELSE StripNonEmpty(Tail(pieces))

TagList(s) == StripNonEmpty(Split(s))

\* The seen-dict loop: keep the first occurrence of every tag.
RECURSIVE UniqueFrom(_, _, _)
UniqueFrom(tags, i, acc) ==
    IF i > Len(tags) THEN acc
    ELSE IF tags[i] \in Range(acc) THEN UniqueFrom(tags, i + 1, acc)
    ELSE UniqueFrom(tags, i + 1, Append(acc, tags[i]))

\* A faulty variant, which the property must tell apart: the last occurrence of every tag is kept instead.
RECURSIVE UniqueLastFrom(_, _, _)
UniqueLastFrom(tags, i, acc) ==
    IF i > Len(tags) THEN acc
    ELSE IF \E j \in (i + 1)..Len(tags) : tags[j] = tags[i]
         THEN UniqueLastFrom(tags, i + 1, acc)
    ELSE UniqueLastFrom(tags, i + 1, Append(acc, tags[i]))

UniqueTagsKeepLast(tags) == UniqueLastFrom(tags, 1, <<>>)

UniqueTags(tags) == UniqueFrom(tags, 1, <<>>)

\* A faulty variant, which the property must tell apart: the pieces are de-duplicated as split, and stripped afterwards.
normalize_dedupe_before_strip(text) ==
    IF text = <<>> THEN <<>>
    ELSE LET normalized == Strip(Remove(Remove(ReplaceAll(text), "\n"), " "))
         IN  IF normalized # <<>>
             THEN Join(StripNonEmpty(UniqueTags(Split(normalized))))
             ELSE normalized

\* A faulty variant, which the property must tell apart: only the ends of
\* the text and of each tag are stripped.
normalize_strip_ends_only(text) ==
    IF text = <<>> THEN <<>>
    ELSE LET normalized == Strip(ReplaceAll(text))
         IN  IF normalized # <<>>
             THEN Join(UniqueTags(TagList(normalized)))
             ELSE normalized

normalize_caption_text(text) ==
    IF text = <<>> THEN <<>>
    ELSE LET normalized == Strip(Remove(Remove(ReplaceAll(text), "\n"), " "))
         IN  IF normalized # <<>>
             THEN Join(UniqueTags(TagList(normalized)))
             ELSE normalized

\* ------------------------------------------------- ImageCaptionItem (files)
\* A text file on disk: absent, present but unreadable, or present with a text.
Absent == [kind |-> "absent"]
Unreadable == [kind |-> "unreadable"]
TextFile(s) == [kind |-> "text", text |-> s]

\* What a failed Path.write_text leaves behind: open() failed and the file is
\* untouched, or open() truncated it and the write failed.
WriteOutcomes == {"ok", "open_fails", "write_fails"}

\* ImageCaptionItem.load_caption: the normalised text, "" when the file is
\* absent or cannot be read.
load_caption(file) ==
    IF file.kind = "text" THEN normalize_caption_text(file.text) ELSE <<>>

\* A faulty variant, which the property must tell apart: the in-memory caption is set before the write is attempted.
save_caption_assign_first(item, file, content, outcome) ==
    LET clean_content == normalize_caption_text(content)
    IN  CASE outcome = "ok" ->
               [item |-> [item EXCEPT !.caption = clean_content],
                file |-> TextFile(clean_content), ret |-> clean_content]
          [] outcome = "open_fails" ->
               [item |-> [item EXCEPT !.caption = clean_content],
                file |-> file, ret |-> <<>>]
          [] OTHER ->
               [item |-> [item EXCEPT !.caption = clean_content],
                file |-> TextFile(<<>>), ret |-> <<>>]

\* ImageCaptionItem.save_caption: the item, its sidecar file and the value
\* returned, for each outcome of the write.
save_caption(item, file, content, outcome) ==
    LET clean_content == normalize_caption_text(content)
    IN  CASE outcome = "ok" ->
               [item |-> [item EXCEPT !.caption = clean_content],
                file |-> TextFile(clean_content), ret |-> clean_content]
          [] outcome = "open_fails" ->
               [item |-> item, file |-> file, ret |-> <<>>]
          [] OTHER ->
               [item |-> item, file |-> TextFile(<<>>), ret |-> <<>>]

\* ------------------------------------------------------------ TagAssistant
\* tag_counts is a dict in insertion order: a sequence of <<tag, count>>.
DictKeys(d) == {d[i][1] : i \in DOMAIN d}

DictGet(d, k) ==
    IF k \in DictKeys(d)
    THEN (CHOOSE p \in Range(d) : p[1] = k)[2]
    ELSE 0

\* The same table, whatever the insertion order.
AsMap(d) == Range(d)

\* self.tag_counts[tag] += 1
DictIncr(d, k) ==
    IF k \in DictKeys(d)
    THEN [i \in DOMAIN d |-> IF d[i][1] = k THEN <<k, d[i][2] + 1>> ELSE d[i]]
    ELSE Append(d, <<k, 1>>)

RECURSIVE IncrAll(_, _)
IncrAll(d, tags) ==
    IF tags = <<>> THEN d
    ELSE IncrAll(DictIncr(d, Head(tags)), Tail(tags))

\* sorted(items, key=count, reverse=True): stable, so ties keep their order.
RECURSIVE InsertByCount(_, _)
InsertByCount(sorted, p) ==
    IF sorted = <<>> THEN <<p>>
    ELSE IF Head(sorted)[2] >= p[2]
         THEN <<Head(sorted)>> \o InsertByCount(Tail(sorted), p)
         ELSE <<p>> \o sorted

RECURSIVE SortByCountDesc(_)
SortByCountDesc(d) ==
    IF d = <<>> THEN <<>>
    ELSE InsertByCount(SortByCountDesc(SubSeq(d, 1, Len(d) - 1)), d[Len(d)])

\* ... if k.strip()
RECURSIVE DropBlankKeys(_)
DropBlankKeys(d) ==
    IF d = <<>> THEN <<>>
    ELSE IF Strip(Head(d)[1]) # <<>>
         THEN <<Head(d)>> \o DropBlankKeys(Tail(d))
         ELSE DropBlankKeys(Tail(d))

\* A tag history file: absent, present but not a JSON object, or a table.
Malformed == [kind |-> "malformed"]
TableFile(t) == [kind |-> "table", table |-> t]

\* TagAssistant.load_history: the new tag_counts.
load_history(tag_counts, file) ==
    IF file.kind = "table" THEN file.table ELSE <<>>

\* A faulty variant, which the property must tell apart: the counts of the folder left stay in memory.
update_target_folder_keep_counts(tag_counts, new_folder, file) ==
    [target_folder |-> new_folder, tag_counts |-> tag_counts]

\* TagAssistant.update_target_folder, `file` being the new folder's tag
\* history file: the new target_folder and tag_counts.
update_target_folder(tag_counts, new_folder, file) ==
    [target_folder |-> new_folder, tag_counts |-> load_history(<<>>, file)]

\* TagAssistant.save_history: the tag history file afterwards.
save_history(tag_counts, target_folder, file, outcome) ==
    IF target_folder = "None" THEN file
    ELSE CASE outcome = "ok" ->
                TableFile(DropBlankKeys(SortByCountDesc(tag_counts)))
           [] outcome = "open_fails" -> file
           [] OTHER -> Malformed

\* TagAssistant.update_tags: the new tag_counts.
update_tags(tag_counts, caption) ==
    IF caption = <<>> THEN tag_counts
    ELSE IncrAll(tag_counts, TagList(normalize_caption_text(caption)))

\* The loop of re_tag_from_folder over the *.txt files of the folder.
RECURSIVE CountFiles(_, _)
CountFiles(tag_counts, txt_files) ==
    IF txt_files = <<>> THEN tag_counts
    ELSE IF Head(txt_files).kind = "text"
         THEN CountFiles(
                  IncrAll(tag_counts,
                          TagList(normalize_caption_text(Head(txt_files).text))),
                  Tail(txt_files))
         ELSE CountFiles(tag_counts, Tail(txt_files))

\* A faulty variant, which the property must tell apart: the raw text is split, not the normalised one.
recount_tag_from_folder_raw(tag_counts, target_folder, txt_files) ==
    IF target_folder = "None" THEN tag_counts
    ELSE LET Raw(f) == IF f.kind = "text"
                       THEN UniqueTags(TagList(f.text)) ELSE <<>>
             RECURSIVE Go(_, _)
             Go(d, fs) == IF fs = <<>> THEN d
                          ELSE Go(IncrAll(d, Raw(Head(fs))), Tail(fs))
         IN  Go(<<>>, txt_files)

\* TagAssistant.re_tag_from_folder (the rescan): the new tag_counts.
recount_tag_from_folder(tag_counts, target_folder, txt_files) ==
    IF target_folder = "None" THEN tag_counts
    ELSE CountFiles(<<>>, txt_files)

\* TagAssistant.get_sorted_tags: rows <<count, tag>>, counts descending.
get_sorted_tags(tag_counts) ==
    LET s == DropBlankKeys(SortByCountDesc(tag_counts))
    IN  [i \in DOMAIN s |-> <<s[i][2], s[i][1]>>]

\* A faulty variant, which the property must tell apart: the tag is appended without looking for it first.
insert_tag_always_append(tag_counts, current_content, tag) ==
    LET content == normalize_caption_text(current_content)
    IN  [ret |-> Join(Append(TagList(content), tag)),
         tag_counts |-> tag_counts]

\* TagAssistant.insert_tag: the value returned and the (untouched) tag_counts.
insert_tag(tag_counts, current_content, tag) ==
    LET content == normalize_caption_text(current_content)
        current_tags == TagList(content)
        new_tags == IF tag \notin Range(current_tags)
                    THEN Append(current_tags, tag) ELSE current_tags
    IN  [ret |-> normalize_caption_text(Join(new_tags)),
         tag_counts |-> tag_counts]

\* ---------------------------------------------------------- folder history
\* [:10] of load_folder_history and save_folder_history.
MaxHistory == 10

\* folder_history.json: absent, present but unusable (not JSON, truncated),
\* or {"history": [...]}.
HistoryFile(h) == [kind |-> "json", history |-> h]

\* history[:n]
FirstN(s, n) == SubSeq(s, 1, IF Len(s) < n THEN Len(s) ELSE n)

\* The valid_history loop: keep the paths that are directories now.
RECURSIVE ValidOnly(_, _)
ValidOnly(history, dirs) ==
    IF history = <<>> THEN <<>>
    ELSE IF Head(history) \in dirs
         THEN <<Head(history)>> \o ValidOnly(Tail(history), dirs)
         ELSE ValidOnly(Tail(history), dirs)

\* list.remove(x): the first occurrence goes.
RECURSIVE RemoveFirst(_, _)
RemoveFirst(s, x) ==
    IF s = <<>> THEN <<>>
    ELSE IF Head(s) = x THEN Tail(s)
    ELSE <<Head(s)>> \o RemoveFirst(Tail(s), x)

\* load_folder_history, `dirs` being the directories that exist: [] when the
\* file is absent and when reading it fails.
load_folder_history(file, dirs) ==
    IF file.kind = "json"
    THEN FirstN(UniqueTags(ValidOnly(file.history, dirs)), MaxHistory)
    ELSE <<>>

\* A faulty variant, which the property must tell apart: the new folder is appended, so the list is oldest first.
save_folder_history_append(file, dirs, folder_str, outcome) ==
    IF folder_str \notin dirs THEN file
    ELSE LET history == load_folder_history(file, dirs)
             removed == IF folder_str \in Range(history)
                        THEN RemoveFirst(history, folder_str) ELSE history
             final_history ==
                 FirstN(UniqueTags(Append(removed, folder_str)), MaxHistory)
         IN  CASE outcome = "ok" -> HistoryFile(final_history)
               [] outcome = "open_fails" -> file
               [] OTHER -> Malformed

\* A faulty variant, which the property must tell apart: the old entry is not removed, and nothing is de-duplicated.
save_folder_history_no_dedupe(file, dirs, folder_str, outcome) ==
    IF folder_str \notin dirs THEN file
    ELSE LET history == load_folder_history(file, dirs)
             final_history == FirstN(<<folder_str>> \o history, MaxHistory)
         IN  CASE outcome = "ok" -> HistoryFile(final_history)
               [] outcome = "open_fails" -> file
               [] OTHER -> Malformed

\* save_folder_history: folder_history.json afterwards, for each outcome of
\* the write.
save_folder_history(file, dirs, folder_str, outcome) ==
    IF folder_str \notin dirs THEN file
    ELSE LET history == load_folder_history(file, dirs)
             removed == IF folder_str \in Range(history)
                        THEN RemoveFirst(history, folder_str) ELSE history
             final_history ==
                 FirstN(UniqueTags(<<folder_str>> \o removed), MaxHistory)
         IN  CASE outcome = "ok" -> HistoryFile(final_history)
               [] outcome = "open_fails" -> file
               [] OTHER -> Malformed

\* --------------------------------------------------------------- the state
VARIABLES
    \* main()'s locals and the widgets
    pc,             \* "run" | "exited" | "crashed"
    tag_counts,     \* tag_assistant.tag_counts
    target_folder,  \* tag_assistant.target_folder, "None" before a folder is open
    image_items,    \* sequence of [img, caption]
    current_index,  \* -1 when no image is shown, else 0-based
    caption_field,  \* the text in the -CAPTION- widget
    tag_table,      \* the rows shown in the -TAG_TABLE- widget
    \* the disk
    sidecar,        \* image -> its .txt file
    tag_file,       \* folder (or "CWD") -> its lora_tag_history.json
    hist_file,      \* folder_history.json
    \* the call of save_caption the last handler made, and the edits so far
    save_call, edits,
    \* the unit harnesses
    phase,          \* where the harness stands
    text, tag,      \* the arguments handed to the function under test
    ret, ret2,      \* what it returned, and what a second application returned
    files,          \* the *.txt files of the folder that is rescanned
    inc_counts,     \* a second tag index, fed one caption at a time
    fed,            \* how many files that index has been fed
    call_log,       \* the calls of save_folder_history so far: [dir, outcome]
    warm,           \* how many of them built the history HistSpec starts from
    pre_history     \* load_folder_history() before the last of them

guiVars == <<pc, target_folder, image_items, current_index, caption_field,
             tag_table, sidecar, tag_file, save_call, edits>>
unitVars == <<phase, text, tag, ret, ret2, files, inc_counts, fed>>
histVars == <<call_log, warm, pre_history>>
vars == <<guiVars, unitVars, histVars, tag_counts, hist_file>>

\* ------------------------------------------------------- the GUI's world
\* Folder A holds two images, folder B none.
Folders == {"A", "B"}
\* What the user may have in the -FOLDER- field when pressing OPEN: nothing,
\* a path that is no directory, or a folder.
FolderInputs == Folders \cup {"", "X"}
Images == {"A1", "A2"}

\* sorted(folder_path.glob("*")) with a supported suffix.
FolderImages(f) == IF f = "A" THEN <<"A1", "A2">> ELSE <<>>

\* What the user may type into the caption field.
EditTexts == { <<"b", ",", " ", "a", "/", "b">> }

\* target_folder.glob("*.txt"): the sidecar files that exist.
RECURSIVE ExistingFiles(_, _)
ExistingFiles(imgs, disk) ==
    IF imgs = <<>> THEN <<>>
    ELSE IF disk[Head(imgs)].kind = "absent"
         THEN ExistingFiles(Tail(imgs), disk)
         ELSE <<disk[Head(imgs)]>> \o ExistingFiles(Tail(imgs), disk)

TxtFiles(f, disk) == ExistingFiles(FolderImages(f), disk)

NoSave == [outcome |-> "none", ret |-> <<>>]

CurItem == image_items[current_index + 1]

\* if current_index >= 0 and values["-CAPTION-"] != item.caption:
\*     clean_content = item.save_caption(values["-CAPTION-"])
\*     tag_assistant.update_tags(clean_content)
Commit(outcome) ==
    IF current_index >= 0 /\ caption_field # CurItem.caption
    THEN LET r == save_caption(CurItem, sidecar[CurItem.img], caption_field,
                               outcome)
         IN  [items |-> [image_items EXCEPT ![current_index + 1] = r.item],
              disk  |-> [sidecar EXCEPT ![CurItem.img] = r.file],
              counts |-> update_tags(tag_counts, r.ret),
              save |-> [outcome |-> outcome, ret |-> r.ret]]
    ELSE [items |-> image_items, disk |-> sidecar, counts |-> tag_counts,
          save |-> NoSave]

UnitIdle ==
    /\ phase = "gui" /\ text = <<>> /\ tag = <<>> /\ ret = <<>> /\ ret2 = <<>>
    /\ files = <<>> /\ inc_counts = <<>> /\ fed = 0

HistIdle == call_log = <<>> /\ warm = 0 /\ pre_history = <<>>

GuiIdle ==
    /\ pc = "off" /\ target_folder = "None" /\ image_items = <<>>
    /\ current_index = -1 /\ caption_field = <<>> /\ tag_table = <<>>
    /\ sidecar = [i \in Images |-> Absent]
    /\ tag_file = [f \in Folders \cup {"CWD"} |-> Absent]
    /\ save_call = [outcome |-> "none", ret |-> <<>>] /\ edits = 0

GuiInit ==
    /\ pc = "run"
    /\ sidecar = [i \in Images |->
                    IF i = "A1" THEN TextFile(<<"a", " ", ",", "a">>) ELSE Absent]
    /\ tag_file \in [Folders \cup {"CWD"} ->
                       {Absent, TableFile(<< <<<<"a">>, 2>> >>),
                        TableFile(<< <<<<"b">>, 3>> >>)}]
    /\ tag_file["CWD"] \in {Absent, TableFile(<< <<<<"a">>, 2>> >>)}
    /\ tag_file["A"] = Absent
    /\ tag_file["B"] = TableFile(<< <<<<"b">>, 3>> >>)
    /\ hist_file = Absent
    \* tag_assistant = TagAssistant(): lora_tag_history.json of the working
    \* directory is loaded
    /\ tag_counts = load_history(<<>>, tag_file["CWD"])
    /\ target_folder = "None"
    /\ image_items = <<>>
    /\ current_index = -1
    /\ caption_field = <<>>
    /\ tag_table = <<>>
    /\ save_call = NoSave
    /\ edits = 0
    /\ UnitIdle /\ HistIdle

\* The user types into the caption field (no event reaches the loop).
EditCaption(s) ==
    /\ pc = "run" /\ edits < MaxEdits
    /\ caption_field' = s
    /\ edits' = edits + 1
    /\ UNCHANGED <<pc, tag_counts, target_folder, image_items, current_index,
                   tag_table, sidecar, tag_file, hist_file, save_call,
                   unitVars, histVars>>

\* event in (sg.WIN_CLOSED, '-EXIT-')
Exit(o1, o2) ==
    /\ pc = "run"
    /\ LET c == Commit(o1)
       IN  /\ image_items' = c.items
           /\ sidecar' = c.disk
           /\ tag_counts' = c.counts
           /\ save_call' = c.save
           /\ tag_file' = IF target_folder = "None" THEN tag_file
                          ELSE [tag_file EXCEPT ![target_folder] =
                                   save_history(c.counts, target_folder, @, o2)]
    /\ pc' = "exited"
    /\ UNCHANGED <<target_folder, current_index, caption_field, tag_table,
                   hist_file, edits, unitVars, histVars>>

\* event == "-OPEN-" with nothing, or no directory, in the folder field
OpenRejected(path) ==
    /\ pc = "run"
    /\ path \notin Folders
    /\ save_call' = NoSave
    /\ UNCHANGED <<pc, tag_counts, target_folder, image_items, current_index,
                   caption_field, tag_table, sidecar, tag_file, hist_file,
                   edits, unitVars, histVars>>

\* event == "-OPEN-" with a directory in the folder field
Open(path, o) ==
    /\ pc = "run"
    /\ path \in Folders
    /\ hist_file' = save_folder_history(hist_file, Folders, path, o)
    /\ LET t == update_target_folder(tag_counts, path, tag_file[path])
           items == [i \in DOMAIN FolderImages(path) |->
                       [img |-> FolderImages(path)[i],
                        caption |-> load_caption(sidecar[FolderImages(path)[i]])]]
       IN  /\ target_folder' = t.target_folder
           /\ tag_counts' = t.tag_counts
           /\ image_items' = items
           /\ tag_table' = get_sorted_tags(t.tag_counts)
           /\ IF items = <<>>
              THEN current_index' = -1 /\ caption_field' = <<>>
              ELSE current_index' = 0 /\ caption_field' = items[1].caption
    /\ save_call' = NoSave
    /\ UNCHANGED <<pc, sidecar, tag_file, edits, unitVars, histVars>>

\* event in ("-PREV-", "-NEXT-"): the buttons, or PageUp/PageDown
PrevNext(ev, o) ==
    /\ pc = "run"
    /\ LET c == Commit(o)
           idx == IF ev = "PREV" /\ current_index > 0 THEN current_index - 1
                  ELSE IF ev = "NEXT" /\ current_index < Len(image_items) - 1
                       THEN current_index + 1
                  ELSE current_index
       IN  /\ image_items' = c.items
           /\ sidecar' = c.disk
           /\ tag_counts' = c.counts
           /\ save_call' = c.save
           /\ tag_table' = IF c.save.outcome # "none"
                           THEN get_sorted_tags(c.counts) ELSE tag_table
           /\ current_index' = idx
           /\ caption_field' = IF c.items # <<>> THEN c.items[idx + 1].caption
                               ELSE caption_field
    /\ UNCHANGED <<pc, target_folder, tag_file, hist_file, edits, unitVars,
                   histVars>>

\* for row_idx in selected_rows:
\*     tag = tag_assistant.get_sorted_tags()[row_idx][1]
\*     current_content = tag_assistant.insert_tag(current_content, tag)
RECURSIVE InsertRows(_, _, _)
InsertRows(counts, content, rows) ==
    IF rows = <<>> THEN content
    ELSE InsertRows(counts,
                    insert_tag(counts, content,
                               get_sorted_tags(counts)[Head(rows) + 1][2]).ret,
                    Tail(rows))

\* The selections of the table's rows: 0-based, in row order, at most
\* MaxSelect of them.
RECURSIVE SelectionsFrom(_, _)
SelectionsFrom(lo, n) ==
    {<<>>} \cup
    UNION { {<<i>> \o rest : rest \in SelectionsFrom(i + 1, n)} : i \in lo..(n - 1) }

Selections ==
    {sel \in SelectionsFrom(0, Len(tag_table)) : Len(sel) <= MaxSelect}

\* event == "-TAG_TABLE-"
TagTable(selected_rows) ==
    /\ pc = "run"
    /\ selected_rows # <<>> => edits < MaxEdits
    /\ IF selected_rows = <<>>
       THEN UNCHANGED <<pc, caption_field, edits>>
       ELSE IF \E k \in DOMAIN selected_rows :
                  selected_rows[k] >= Len(get_sorted_tags(tag_counts))
            THEN \* IndexError, which nothing catches
                 pc' = "crashed" /\ UNCHANGED <<caption_field, edits>>
            ELSE /\ caption_field' =
                        InsertRows(tag_counts, caption_field, selected_rows)
                 /\ edits' = edits + 1
                 /\ UNCHANGED pc
    /\ save_call' = NoSave
    /\ UNCHANGED <<tag_counts, target_folder, image_items, current_index,
                   tag_table, sidecar, tag_file, hist_file, unitVars, histVars>>

\* event == "-RECOUNT_TAGS-"
Recount(o) ==
    /\ pc = "run"
    /\ LET counts == recount_tag_from_folder(tag_counts, target_folder,
                                             TxtFiles(target_folder, sidecar))
       IN  /\ tag_counts' = counts
           /\ tag_file' = IF target_folder = "None" THEN tag_file
                          ELSE [tag_file EXCEPT ![target_folder] =
                                   save_history(counts, target_folder, @, o)]
           /\ tag_table' = get_sorted_tags(counts)
    /\ save_call' = NoSave
    /\ UNCHANGED <<pc, target_folder, image_items, current_index,
                   caption_field, sidecar, hist_file, edits, unitVars,
                   histVars>>

Next ==
    \/ \E s \in EditTexts : EditCaption(s)
    \/ \E o1, o2 \in WriteOutcomes : Exit(o1, o2)
    \/ \E path \in FolderInputs : OpenRejected(path)
    \/ \E path \in FolderInputs, o \in WriteOutcomes : Open(path, o)
    \/ \E ev \in {"PREV", "NEXT"}, o \in WriteOutcomes : PrevNext(ev, o)
    \/ \E rows \in Selections : TagTable(rows)
    \/ \E o \in WriteOutcomes : Recount(o)

Spec == GuiInit /\ [][Next]_vars

\* ------------------------------------------------- the normaliser's harness
\* The index the harnesses start with.
SomeCounts == << <<<<"a">>, 2>>, <<<<"b">>, 1>> >>

HarnessInit ==
    /\ tag = <<>> /\ ret = <<>> /\ ret2 = <<>>
    /\ files = <<>> /\ inc_counts = <<>> /\ fed = 0
    /\ tag_counts = SomeCounts
    /\ hist_file = Absent
    /\ GuiIdle /\ HistIdle

NormInit ==
    /\ phase = "input"
    /\ text \in Strings(MaxLen)
    /\ HarnessInit

\* ret = normalize_caption_text(text)
Normalize ==
    /\ phase = "input"
    /\ ret' = normalize_caption_text(text)
    /\ phase' = "normalized"
    /\ UNCHANGED <<text, tag, ret2, files, inc_counts, fed, tag_counts,
                   hist_file, guiVars, histVars>>

\* ret2 = normalize_caption_text(ret)
NormalizeAgain ==
    /\ phase = "normalized"
    /\ ret2' = normalize_caption_text(ret)
    /\ phase' = "renormalized"
    /\ UNCHANGED <<text, tag, ret, files, inc_counts, fed, tag_counts,
                   hist_file, guiVars, histVars>>

NormNext ==
    \/ Normalize
    \/ NormalizeAgain

NormSpec == NormInit /\ [][NormNext]_vars

\* --------------------------------------------------- insert_tag's harness
\* The tags an index can hold: those of some normalised caption.
Tags == UNION {Range(TagList(normalize_caption_text(s))) : s \in Strings(MaxTagLen)}

InsertInit ==
    /\ phase = "input"
    /\ text \in Strings(MaxCaptionLen)
    /\ HarnessInit

\* ret = tag_assistant.insert_tag(text, t)
InsertTag(t) ==
    /\ phase = "input"
    /\ LET r == insert_tag(tag_counts, text, t)
       IN  ret' = r.ret /\ tag_counts' = r.tag_counts
    /\ tag' = t
    /\ phase' = "inserted"
    /\ UNCHANGED <<text, ret2, files, inc_counts, fed, hist_file, guiVars,
                   histVars>>

InsertNext == \E t \in Tags : InsertTag(t)

InsertSpec == InsertInit /\ [][InsertNext]_vars

\* ------------------------------------------------ the tag index's harness
\* The raw texts of the *.txt files: empty, one tag, separators only, blank,
\* tags repeated within a file and across files, every separator and every
\* kind of whitespace.
FileTexts == { <<>>,
               <<"a">>,
               <<"a", ",", " ", "b">>,
               <<"b", "/", "a", "/", "b">>,
               <<" ", "\n">>,
               <<",", "\t", "b", ",">> }

FileChoices == {Unreadable} \cup {TextFile(s) : s \in FileTexts}

RECURSIVE FileLists(_)
FileLists(n) ==
    IF n = 0 THEN {<<>>}
    ELSE FileLists(n - 1)
         \cup {Append(l, f) : l \in {m \in FileLists(n - 1) : Len(m) = n - 1},
                              f \in FileChoices}

IndexInit ==
    /\ phase = "folder"
    /\ files \in FileLists(MaxFiles)
    /\ tag_counts = SomeCounts
    /\ inc_counts = <<>> /\ fed = 0
    /\ text = <<>> /\ tag = <<>> /\ ret = <<>> /\ ret2 = <<>>
    /\ hist_file = Absent
    /\ pc = "off" /\ target_folder = "A" /\ image_items = <<>>
    /\ current_index = -1 /\ caption_field = <<>> /\ tag_table = <<>>
    /\ sidecar = [i \in Images |-> Absent]
    /\ tag_file = [f \in Folders \cup {"CWD"} |-> Absent]
    /\ save_call = NoSave /\ edits = 0
    /\ HistIdle

\* tag_assistant.re_tag_from_folder(), the folder holding `files`
Rescan(o) ==
    /\ phase = "folder"
    /\ LET counts == recount_tag_from_folder(tag_counts, target_folder, files)
       IN  /\ tag_counts' = counts
           /\ tag_file' = [tag_file EXCEPT ![target_folder] =
                              save_history(counts, target_folder, @, o)]
    /\ phase' = "rescanned"
    /\ UNCHANGED <<text, tag, ret, ret2, files, inc_counts, fed, hist_file,
                   pc, target_folder, image_items, current_index,
                   caption_field, tag_table, sidecar, save_call, edits,
                   histVars>>

\* The other index: update_tags(normalize_caption_text(raw)) for the next
\* file that can be read.
UpdateNext ==
    /\ fed < Len(files)
    /\ inc_counts' =
           IF files[fed + 1].kind = "text"
           THEN update_tags(inc_counts,
                            normalize_caption_text(files[fed + 1].text))
           ELSE inc_counts
    /\ fed' = fed + 1
    /\ UNCHANGED <<phase, text, tag, ret, ret2, files, tag_counts, hist_file,
                   guiVars, histVars>>

IndexNext ==
    \/ \E o \in WriteOutcomes : Rescan(o)
    \/ UpdateNext

IndexSpec == IndexInit /\ [][IndexNext]_vars

\* -------------------------------------------- the folder history's harness
\* The directories that exist; 0 is a path that is no directory.
Dirs == 1..NumDirs

\* The run starts with no history file; its first `warm` calls save the
\* directories 1..warm in turn, and the calls after them save any directory.
HistInit ==
    /\ hist_file = Absent
    /\ call_log = <<>>
    /\ pre_history = <<>>
    /\ warm \in 0..MaxHistory
    /\ phase = "history"
    /\ text = <<>> /\ tag = <<>> /\ ret = <<>> /\ ret2 = <<>>
    /\ files = <<>> /\ inc_counts = <<>> /\ fed = 0
    /\ tag_counts = <<>>
    /\ GuiIdle

\* save_folder_history(d), the write having the outcome o
SaveCall(d, o) ==
    /\ pre_history' = load_folder_history(hist_file, Dirs)
    /\ hist_file' = save_folder_history(hist_file, Dirs, d, o)
    /\ call_log' = Append(call_log, [dir |-> d, outcome |-> o])
    /\ UNCHANGED <<unitVars, guiVars, tag_counts, warm>>

\* One of the calls that build the history
WarmUp ==
    /\ phase = "history"
    /\ Len(call_log) < warm
    /\ SaveCall(Len(call_log) + 1, "ok")

\* save_folder_history(d), d a directory
SaveFolder(d, o) ==
    /\ phase = "history"
    /\ warm <= Len(call_log) /\ Len(call_log) < warm + MaxSaves
    /\ d \in Dirs
    /\ SaveCall(d, o)

\* save_folder_history(d), d no directory: nothing is read or written
SaveNoFolder(d) ==
    /\ phase = "history"
    /\ warm <= Len(call_log) /\ Len(call_log) < warm + MaxSaves
    /\ d \notin Dirs
    /\ SaveCall(d, "not_a_dir")

HistNext ==
    \/ WarmUp
    \/ \E d \in Dirs, o \in WriteOutcomes : SaveFolder(d, o)
    \/ SaveNoFolder(0)

HistSpec == HistInit /\ [][HistNext]_vars

\* ------------------------------------------------------------- the claims
Failures == {"open_fails", "write_fails"}

\* A step of the PREV/NEXT handler that shows another image.
Navigates ==
    /\ \E ev \in {"PREV", "NEXT"}, o \in WriteOutcomes : PrevNext(ev, o)
    /\ current_index' # current_index

\* A step of the OPEN handler that opens a folder.
OpensFolder == \E path \in Folders, o \in WriteOutcomes : Open(path, o)

PendingEdit == current_index >= 0 /\ caption_field # CurItem.caption

\* C1: whenever navigation shows another image, or OPEN opens a folder while
\* an image is shown, and the caption field differs from the current item's
\* caption, the handler first calls save_caption on the current item (and
\* update_tags on what it returns): no pending edit is dropped by a switch.
C1_CommitBeforeSwitch ==
    [][(PendingEdit /\ (Navigates \/ OpensFolder))
          => save_call'.outcome # "none"]_vars

\* The table a tag history file gives back when it is loaded.
Persisted(f) == AsMap(load_history(<<>>, tag_file[f]))

\* C2: after every navigation that shows another image, and after the exit
\* handler (its write succeeding), the tag history file of the current folder
\* holds the tag counts that are in memory.
C2_IndexPersisted ==
    [][(target_folder # "None"
        /\ (Navigates \/ \E o \in WriteOutcomes : Exit(o, "ok")))
          => Persisted(target_folder)' = AsMap(tag_counts')]_vars

\* The tags of one file, as the rescan sees them.
FileTags(f) ==
    IF f.kind = "text" THEN Range(TagList(normalize_caption_text(f.text)))
    ELSE {}

\* C3: a rescan of a folder yields the same tag -> count table as an empty
\* index fed update_tags once per readable file with that file's normalised
\* content; each tag's count is the number of readable files whose normalised
\* caption holds the tag.
C3_RebuildEqualsUpdates ==
    (phase = "rescanned" /\ fed = Len(files)) =>
        /\ AsMap(tag_counts) = AsMap(inc_counts)
        /\ \A i, j \in DOMAIN tag_counts :
               tag_counts[i][1] = tag_counts[j][1] => i = j
        /\ DictKeys(tag_counts) = UNION {FileTags(files[i]) : i \in DOMAIN files}
        /\ \A t \in DictKeys(tag_counts) :
               DictGet(tag_counts, t) =
                   Cardinality({i \in DOMAIN files : t \in FileTags(files[i])})

\* A rescan and the updates are both done, over a folder with a file that
\* cannot be read and a tag that two files share.
C3_Witness ==
    /\ phase = "rescanned" /\ fed = Len(files)
    /\ \E i \in DOMAIN files : files[i].kind = "unreadable"
    /\ \E i \in DOMAIN tag_counts : tag_counts[i][2] >= 2
    /\ Len(tag_counts) >= 2

\* C4: normalize_caption_text is idempotent: normalising what it returned
\* returns the same string.
C4_Idempotent == phase = "renormalized" => ret2 = ret

\* The second normalisation ran on a result the first one had to work for:
\* two tags are left of a text it changed.
C4_Witness ==
    /\ phase = "renormalized"
    /\ ret # text
    /\ Len(TagList(ret)) >= 2

\* The tags of a raw text, piece by piece: split the text at every comma
\* (and every character replace_map turns into one), drop the spaces and
\* newlines of each piece, strip it, and keep it when something is left.
InputTags(raw) ==
    LET pieces == Split(ReplaceAll(raw))
        Clean(q) == Strip(Remove(Remove(q, "\n"), " "))
    IN  SelectSeq([i \in DOMAIN pieces |-> Clean(pieces[i])],
                  LAMBDA q : q # <<>>)

FirstIndex(s, x) == CHOOSE i \in DOMAIN s : s[i] = x /\ \A j \in 1..(i - 1) : s[j] # x

\* C5: the output of normalize_caption_text is the comma-joined sequence of
\* the distinct non-empty tags of the input, each once, in the order of its
\* first occurrence, with no empty piece (so no leading or trailing comma).
C5_Canonical ==
    phase = "normalized" =>
        LET out == IF ret = <<>> THEN <<>> ELSE Split(ret)
            src == InputTags(text)
        IN  /\ \A i \in DOMAIN out : out[i] # <<>> /\ Strip(out[i]) = out[i]
            /\ \A i, j \in DOMAIN out : out[i] = out[j] => i = j
            /\ Range(out) = Range(src)
            /\ \A i, j \in DOMAIN out :
                   i < j => FirstIndex(src, out[i]) < FirstIndex(src, out[j])

\* A text whose second tag comes back after the first: the repeat is dropped
\* and two tags are left, in the order they first came.
C5_Witness ==
    /\ phase = "normalized"
    /\ Len(InputTags(text)) = 3
    /\ InputTags(text)[1] = InputTags(text)[3]
    /\ Len(Split(ret)) = 2

\* C6: when the write of the sidecar file fails in save_caption, the call
\* returns the empty string, the captions in memory are what they were, the
\* handler's update_tags leaves the tag counts as they were, and nothing is
\* raised.
C6_FailedSave ==
    [][save_call'.outcome \in Failures =>
          /\ save_call'.ret = <<>>
          /\ \A i \in DOMAIN image_items :
                 image_items'[i].caption = image_items[i].caption
          /\ tag_counts' = tag_counts
          /\ pc' # "crashed"]_vars

\* PREV/NEXT committed an edit, the write failed, and the loop goes on with
\* counts in the index.
C6_Witness ==
    /\ pc = "run"
    /\ save_call.outcome \in Failures
    /\ tag_counts # <<>>
    /\ current_index = 1

\* C7: after update_target_folder(new_folder) the tag counts are the table
\* of the new folder's tag history file, or empty when that file is absent or
\* cannot be used; nothing of the folder left remains, nothing is raised.
C7_FolderSwitch ==
    [][\A path \in Folders :
          (\E o \in WriteOutcomes : Open(path, o)) =>
              /\ target_folder' = path
              /\ tag_counts' = (IF tag_file[path].kind = "table"
                                THEN tag_file[path].table ELSE <<>>)
              /\ pc' = "run"]_vars

\* Folder B is open with exactly the counts of its file, after an edit was
\* committed (and counted) in folder A.
C7_Witness ==
    /\ pc = "run"
    /\ target_folder = "B"
    /\ tag_counts = << <<<<"b">>, 3>> >>
    /\ sidecar["A1"] = TextFile(<<"b", ",", "a">>)

\* The calls that wrote the history.
Saved(i) == call_log[i].outcome = "ok"

\* The last call that saved directory d, 0 when none did.
LastSaved(d) ==
    LET at == {i \in DOMAIN call_log : Saved(i) /\ call_log[i].dir = d}
    IN  IF at = {} THEN 0 ELSE CHOOSE i \in at : \A j \in at : j <= i

\* The last n calls each saved a directory, and n different ones.
LastSavesDistinct(n) ==
    /\ Len(call_log) >= n
    /\ \A i \in (Len(call_log) - n + 1)..Len(call_log) : Saved(i)
    /\ \A i, j \in (Len(call_log) - n + 1)..Len(call_log) :
           call_log[i].dir = call_log[j].dir => i = j

\* C8: after any calls of save_folder_history with directories, the
\* persisted history has at most 10 entries and no path twice, and is in the
\* order of the saves, the latest first; once 11 different directories were
\* saved in a row it holds exactly the 10 latest, the newest first.
C8_HistoryBounded ==
    hist_file.kind = "json" =>
        LET h == hist_file.history
            n == Len(call_log)
        IN  /\ Len(h) <= 10
            /\ \A i, j \in DOMAIN h : h[i] = h[j] => i = j
            /\ \A i \in DOMAIN h : LastSaved(h[i]) > 0
            /\ \A i, j \in DOMAIN h :
                   i < j => LastSaved(h[i]) > LastSaved(h[j])
            /\ LastSavesDistinct(11) =>
                   h = [i \in 1..10 |-> call_log[n + 1 - i].dir]

\* Eleven different directories were saved one after the other: ten are
\* left, the newest first, and the oldest is gone.
C8_Witness ==
    /\ hist_file.kind = "json"
    /\ LastSavesDistinct(11)
    /\ Len(hist_file.history) = 10
    /\ hist_file.history[1] = call_log[Len(call_log)].dir
    /\ call_log[Len(call_log) - 10].dir \notin Range(hist_file.history)

\* The last call saved a directory the history already held.
ResavedPresent ==
    /\ call_log # <<>>
    /\ Saved(Len(call_log))
    /\ call_log[Len(call_log)].dir \in Range(pre_history)

\* C9: saving a directory that is in the history already moves it to the
\* front, leaves the number of entries as it was, makes no duplicate and
\* keeps the other entries in their order.
C9_MoveToFront ==
    ResavedPresent =>
        LET h == hist_file.history
            d == call_log[Len(call_log)].dir
        IN  /\ h[1] = d
            /\ Len(h) = Len(pre_history)
            /\ \A i, j \in DOMAIN h : h[i] = h[j] => i = j
            /\ Range(h) = Range(pre_history)
            /\ \A i, j \in DOMAIN pre_history :
                   (i < j /\ pre_history[i] # d /\ pre_history[j] # d) =>
                       FirstIndex(h, pre_history[i]) < FirstIndex(h, pre_history[j])

\* A full history, and the directory saved was neither its first entry nor
\* its last.
C9_Witness ==
    /\ ResavedPresent
    /\ Len(pre_history) = 10
    /\ call_log[Len(call_log)].dir \notin {pre_history[1], pre_history[10]}
    /\ hist_file.history[1] = call_log[Len(call_log)].dir

\* C10: insert_tag(c, t) returns normalize(c) as it is when t is one of its
\* tags, and normalize(c) with t appended as the last tag otherwise; the tag
\* counts of the index are left as they were.
C10_InsertTag ==
    phase = "inserted" =>
        LET n == normalize_caption_text(text)
            tags == IF n = <<>> THEN <<>> ELSE Split(n)
        IN  /\ tag \in Range(tags) => ret = n
            /\ tag \notin Range(tags) =>
                   ret = (IF n = <<>> THEN tag ELSE n \o <<",">> \o tag)
            /\ tag_counts = SomeCounts

\* A caption of two tags that normalisation had to change, and a third tag
\* appended behind them.
C10_Witness ==
    /\ phase = "inserted"
    /\ Len(TagList(normalize_caption_text(text))) = 2
    /\ normalize_caption_text(text) # text
    /\ tag \notin Range(TagList(normalize_caption_text(text)))
    /\ Len(TagList(ret)) = 3

\* C11: the output of normalize_caption_text holds no newline and no space,
\* wherever they were in the text, inside a tag too.
C11_NoSpaceNoNewline ==
    phase = "normalized" =>
        \A i \in DOMAIN ret : ret[i] \notin {"\n", " "}

\* A text with a space inside a tag and a newline before the comma: the two
\* tags come out with their letters joined.
C11_Witness ==
    /\ phase = "normalized"
    /\ text = <<"a", " ", "b", "\n", ",">>
    /\ ret = <<"a", "b">>

\* C12: every time the event loop waits for the next event, the rows of the
\* tag table are get_sorted_tags() of the tag counts in memory, from start-up
\* on.
C12_TableShowsIndex ==
    pc = "run" => tag_table = get_sorted_tags(tag_counts)

====
